---- MODULE Spec2Model ----
(***************************************************************************)
(* PawCare AI: the RAG pipeline built at import time by                    *)
(* rag_chain.initialize_rag_chain and the Flask handlers of app.py that    *)
(* feed it (register, login, logout, pet create/update/delete, chat).      *)
(*                                                                         *)
(* Text is modelled as a sequence of fragments (one-character strings for  *)
(* chat messages and page text, longer literals for the f-string pieces),  *)
(* so concatenation, strip() and slicing are the sequence operations.      *)
(* Python's None is the empty option <<>>, a present value v is <<v>>.     *)
(***************************************************************************)
EXTENDS Integers, Sequences, FiniteSets, TLC

\* ---------------------------------------------------------------- bounds
\* largest number of PDF pages the data folder may hold
MaxDocs == 3
\* largest number of rows ever present in the pet table
MaxPets == 2
\* how many characters the longest page exceeds the truncation length by
MaxExtra == 2

\* ------------------------------------------------------- program constants
RetrieverK == 4
MaxSources == 2
TruncLen == 150
ChunkSize == 1000

\* ------------------------------------------------------------ environment
Clients == {"c1"}
Threads == {"t1", "t2"}

None == <<>>
Some(v) == <<v>>

Min(a, b) == IF a < b THEN a ELSE b
Abs(a) == IF a < 0 THEN -a ELSE a

\* ------------------------------------------------------------------ text
Whitespace == {" ", "\t", "\n"}

RECURSIVE LStrip(_)
LStrip(s) ==
    IF s # <<>> /\ Head(s) \in Whitespace THEN LStrip(Tail(s)) ELSE s

RECURSIVE RStrip(_)
RStrip(s) ==
    IF s # <<>> /\ s[Len(s)] \in Whitespace
    THEN RStrip(SubSeq(s, 1, Len(s) - 1))
    ELSE s

\* strip() forgotten
Strip_forgotten(s) == s

\* str.strip()
Strip(s) == RStrip(LStrip(s))

\* s[:n]
Slice(s, n) == SubSeq(s, 1, Min(n, Len(s)))

Digits == <<"0", "1", "2", "3", "4", "5", "6", "7", "8", "9">>

\* str(n) for a non-negative integer
RECURSIVE IntToStr(_)
IntToStr(n) ==
    IF n < 10 THEN <<Digits[n + 1]>>
    ELSE IntToStr(n \div 10) \o <<Digits[(n % 10) + 1]>>

\* sep.join(parts)
RECURSIVE Join(_, _)
Join(parts, sep) ==
    IF parts = <<>> THEN <<>>
    ELSE IF Len(parts) = 1 THEN parts[1]
    ELSE parts[1] \o sep \o Join(Tail(parts), sep)

\* dict.get(key, default)
DictGet(d, key, default) == IF key \in DOMAIN d THEN d[key] ELSE default

\* ------------------------------------------------------- the data folder
\* The text of page p of the PDF in the data folder: pages longer than,
\* exactly as long as, and shorter than the truncation length.
PageLen(p) ==
    CASE p % 4 = 0 -> TruncLen + MaxExtra
      [] p % 4 = 1 -> TruncLen
      [] p % 4 = 2 -> TruncLen + 1
      [] OTHER     -> MaxExtra + 1

PageText(p) == [j \in 1..PageLen(p) |-> Digits[((p + j) % 10) + 1]]

\* the folder holds the first n pages; page numbers start at 0
DataDir(n) ==
    [i \in 1..n |->
        [page_content |-> PageText(i - 1),
         metadata |-> [source |-> "data/care.pdf", page |-> i - 1]]]

DataDirs == {DataDir(n) : n \in {0, 1, MaxDocs}}

\* ----------------------------------------------------------------- state
VARIABLES
    dataDir,     \* the pages of the PDFs in the data folder (never written)
    stage,       \* how far initialize_rag_chain has got
    docs,        \* initialize_rag_chain's local docs
    split_docs,  \* initialize_rag_chain's local split_docs
    qa_chain,    \* app.qa_chain: None until line 34 has assigned it
    proc,        \* the process: importing app.py, exited, imported, serving
    users,       \* the user table, row i has id i
    pets,        \* the pet table, ordered by id
    session,     \* per browser, the session cookie's dictionary
    req          \* per handler thread, the chat request it is serving

vars == <<dataDir, stage, docs, split_docs, qa_chain, proc, users, pets,
          session, req>>

buildVars == <<stage, docs, split_docs, qa_chain>>

\* --------------------------------------------------- initialize_rag_chain
\* RecursiveCharacterTextSplitter on a page that fits one chunk: the page
\* itself, with its metadata (the pages of the data folder all fit).
SplitDocuments(pages) ==
    [i \in 1..Len(pages) |->
        [page_content |-> Slice(pages[i].page_content, ChunkSize),
         metadata |-> pages[i].metadata]]

\* create_retrieval_chain(vectordb.as_retriever(k=4), question_answer_chain)
RagChain(chunks) == [index |-> chunks, k |-> RetrieverK]

\* BuildFails with the except clause returning a chain over whatever has
\* been built so far
BuildFails_partial ==
    /\ stage' = "Failed"
    /\ docs' = docs
    /\ split_docs' = split_docs
    /\ qa_chain' = Some(RagChain(split_docs))
    /\ proc' = "imported"

\* BuildFails with the exception swallowed: the function returns None
BuildFails_swallowed ==
    /\ stage' = "Failed"
    /\ docs' = <<>>
    /\ split_docs' = <<>>
    /\ qa_chain' = None
    /\ proc' = "imported"

\* the except clause re-raises: the locals are gone, nothing is returned,
\* and the exception leaves app.py's line 34 and ends the import
BuildFails ==
    /\ stage' = "Failed"
    /\ docs' = <<>>
    /\ split_docs' = <<>>
    /\ qa_chain' = None
    /\ proc' = "exited"

\* app.py line 34 calls initialize_rag_chain()
BuildStart ==
    /\ proc = "importing"
    /\ stage = "Uninitialized"
    /\ stage' = "Loading"
    /\ UNCHANGED <<dataDir, docs, split_docs, qa_chain, proc, users, pets,
                   session, req>>

\* loader.load(), then the check for an empty result
LoadDocs ==
    /\ stage = "Loading"
    /\ \E readable \in BOOLEAN :
          LET loaded == IF readable THEN dataDir ELSE <<>> IN
          IF ~readable \/ loaded = <<>>
          THEN BuildFails
          ELSE /\ stage' = "Chunking"
               /\ docs' = loaded
               /\ UNCHANGED <<split_docs, qa_chain, proc>>
    /\ UNCHANGED <<dataDir, users, pets, session, req>>

\* text_splitter.split_documents(docs); an exception raised here is inside
\* the try block like any other
SplitDocs ==
    /\ stage = "Chunking"
    /\ \E splitOk \in BOOLEAN :
          IF ~splitOk
          THEN BuildFails
          ELSE /\ stage' = "Indexing"
               /\ split_docs' = SplitDocuments(docs)
               /\ UNCHANGED <<docs, qa_chain, proc>>
    /\ UNCHANGED <<dataDir, users, pets, session, req>>

\* FAISS.from_documents (one embedding call per chunk), the retriever, the
\* LLM, the prompt and the two chains; the chain is returned and assigned
BuildIndex ==
    /\ stage = "Indexing"
    /\ \E providerOk \in BOOLEAN :
          IF ~providerOk \/ split_docs = <<>>
          THEN BuildFails
          ELSE /\ stage' = "Ready"
               /\ qa_chain' = Some(RagChain(split_docs))
               /\ docs' = <<>>
               /\ split_docs' = <<>>
               /\ proc' = "imported"
    /\ UNCHANGED <<dataDir, users, pets, session, req>>

\* AppRun with line 34 guarded by a try/except: the app starts either way
AppRun_regardless ==
    /\ proc \in {"imported", "exited"}
    /\ proc' = "serving"
    /\ UNCHANGED <<dataDir, buildVars, users, pets, session, req>>

\* line 34 has returned: the rest of the module body runs (db.create_all,
\* the route decorators) and app.run() starts serving
AppRun ==
    /\ proc = "imported"
    /\ proc' = "serving"
    /\ UNCHANGED <<dataDir, buildVars, users, pets, session, req>>

\* ------------------------------------------------------- users, sessions
\* 'user_id' in session
LoggedIn(sess) == "user_id" \in DOMAIN sess

NoSession == [anonymous |-> TRUE]

RegisterInputs ==
    { [username |-> "ann", email |-> "ann@x"],
      [username |-> "bob", email |-> "bob@x"],
      [username |-> "eve"] }

LoginInputs == { [username |-> "ann"], [username |-> "bob"], [email |-> "ann@x"] }

\* User.query.filter_by(<col>=value).first() finds a row
UserExists(col, value) == \E i \in 1..Len(users) : users[i][col] = value

UserId(username) == CHOOSE i \in 1..Len(users) : users[i].username = username

\* POST /api/register, the 201 path (the 400 paths change nothing)
Register(c, data) ==
    /\ proc = "serving"
    /\ DictGet(data, "username", "") # ""
    /\ DictGet(data, "email", "") # ""
    /\ ~UserExists("username", data.username)
    /\ ~UserExists("email", data.email)
    /\ users' = Append(users, [username |-> data.username, email |-> data.email])
    /\ session' = [session EXCEPT ![c] = [user_id |-> Len(users) + 1]]
    /\ UNCHANGED <<dataDir, buildVars, proc, pets, req>>

\* POST /api/login, the 200 path (400 and 404 change nothing)
Login(c, data) ==
    /\ proc = "serving"
    /\ DictGet(data, "username", "") # ""
    /\ UserExists("username", data.username)
    /\ session' = [session EXCEPT ![c] = [user_id |-> UserId(data.username)]]
    /\ UNCHANGED <<dataDir, buildVars, proc, users, pets, req>>

\* POST /api/logout: session.pop('user_id', None)
Logout(c) ==
    /\ proc = "serving"
    /\ session' = [session EXCEPT ![c] = NoSession]
    /\ UNCHANGED <<dataDir, buildVars, proc, users, pets, req>>

\* ------------------------------------------------------------------ pets
PetInputs ==
    { [name |-> "Rex", species |-> "dog", breed |-> "lab", age |-> 3],
      [name |-> "Tom", species |-> "cat"],
      [species |-> "dog", age |-> 3] }

\* the keys a PUT may carry; id, user_id and created_at are never written
UpdateInputs ==
    { [name |-> "Rex", species |-> "dog", breed |-> "lab", age |-> 3, user_id |-> 2] }

\* data.get(key): None when the key is absent
OptGet(d, key) == IF key \in DOMAIN d THEN Some(d[key]) ELSE None

PetIds == {pets[i].id : i \in 1..Len(pets)}

PetRow(pet_id) == CHOOSE i \in 1..Len(pets) : pets[i].id = pet_id

\* the id the table gives the next row
NextPetId == IF pets = <<>> THEN 1 ELSE pets[Len(pets)].id + 1

\* POST /api/pets, the 201 path
PetCreate(c, data) ==
    /\ proc = "serving"
    /\ LoggedIn(session[c])
    /\ DictGet(data, "name", "") # ""
    /\ DictGet(data, "species", "") # ""
    /\ NextPetId <= MaxPets
    /\ pets' = Append(pets,
                  [id |-> NextPetId,
                   user_id |-> session[c].user_id,
                   name |-> data.name,
                   species |-> data.species,
                   breed |-> OptGet(data, "breed"),
                   age |-> OptGet(data, "age")])
    /\ UNCHANGED <<dataDir, buildVars, proc, users, session, req>>

\* the setattr loop of PUT /api/pets/<id>
UpdatedPet(pet, data) ==
    [id |-> pet.id,
     user_id |-> pet.user_id,
     name |-> DictGet(data, "name", pet.name),
     species |-> DictGet(data, "species", pet.species),
     breed |-> IF "breed" \in DOMAIN data THEN Some(data.breed) ELSE pet.breed,
     age |-> IF "age" \in DOMAIN data THEN Some(data.age) ELSE pet.age]

\* PUT /api/pets/<id>, the 200 path (404 and 403 change nothing)
PetUpdate(c, pet_id, data) ==
    /\ proc = "serving"
    /\ LoggedIn(session[c])
    /\ pet_id \in PetIds
    /\ pets[PetRow(pet_id)].user_id = session[c].user_id
    /\ pets' = [pets EXCEPT ![PetRow(pet_id)] = UpdatedPet(@, data)]
    /\ UNCHANGED <<dataDir, buildVars, proc, users, session, req>>

\* DELETE /api/pets/<id>, the 200 path
PetDelete(c, pet_id) ==
    /\ proc = "serving"
    /\ LoggedIn(session[c])
    /\ pet_id \in PetIds
    /\ pets[PetRow(pet_id)].user_id = session[c].user_id
    /\ pets' = SubSeq(pets, 1, PetRow(pet_id) - 1)
                  \o SubSeq(pets, PetRow(pet_id) + 1, Len(pets))
    /\ UNCHANGED <<dataDir, buildVars, proc, users, session, req>>

\* ------------------------------------------------------- the RAG chain
\* a stand-in for the embedding model: a deterministic map from text to a
\* point, close points for texts of similar length modulo 5
Embed(text) == Len(text) % 5

Distance(query, doc) == Abs(Embed(query) - Embed(doc.page_content))

\* index positions by increasing distance, ties in insertion order
RECURSIVE Ranked(_, _, _)
Ranked(index, query, left) ==
    IF left = {} THEN <<>>
    ELSE LET best == CHOOSE i \in left :
                        \A j \in left :
                           \/ Distance(query, index[i]) < Distance(query, index[j])
                           \/ /\ Distance(query, index[i]) = Distance(query, index[j])
                              /\ i <= j
         IN <<index[best]>> \o Ranked(index, query, left \ {best})

\* retriever.invoke(query): similarity search, top k
Retrieve(chain, query) ==
    Slice(Ranked(chain.index, query, 1..Len(chain.index)), chain.k)

\* a stand-in for the chat model's completion of the prompt: it is a text
\* made from the question and the pages of the stuffed context
Synthesize(question, context) ==
    <<"Answer to: ">> \o question \o <<" (from pages ">>
        \o Join([i \in 1..Len(context) |-> IntToStr(context[i].metadata.page)],
                <<",">>)
        \o <<")">>

\* what rag_chain.invoke returns
ChainResponse(input, context, answer) ==
    [input |-> input, context |-> context, answer |-> answer]

\* ------------------------------------------------------ POST /api/chat
JStr(s) == [t |-> "str", v |-> s]
JNull == [t |-> "null", v |-> <<>>]

\* a question with blanks around it and inside it
Question == [message |-> JStr(<<" ", "a", " ", "b", "\n">>)]

\* the JSON bodies a client may post: no message key, null, the empty
\* string, only whitespace, and a question
ChatInputs ==
    { [text |-> JStr(<<"a">>)],
      [message |-> JNull],
      [message |-> JStr(<<>>)],
      [message |-> JStr(<<" ", "\n">>)],
      Question }

UnauthorizedBody ==
    [error |-> "Unauthorized - Please login to use the chatbot",
     answer |-> <<"Please login to chat with PawCare AI.">>]

EmptyBody == [error |-> "Message cannot be empty"]

Apology ==
    <<"I apologize, but I'm having trouble processing your question right now. Please try again.">>

FailureBody ==
    [error |-> "An error occurred processing your request", answer |-> Apology]

NoAnswer == <<"I'm sorry, I couldn't generate a response.">>

Pending == [pending |-> TRUE]

Idle ==
    [pc |-> "idle", data |-> [message |-> JNull], sess |-> NoSession,
     user_input |-> <<>>, context_prefix |-> <<>>, enhanced_query |-> <<>>,
     retriever_query |-> <<>>, llm_question |-> <<>>, context |-> <<>>,
     db_read |-> FALSE, invoked |-> FALSE, exc |-> None,
     status |-> 0, body |-> Pending]

\* the query without its filter: Pet.query.all()
PetsOf_all(rows, uid) == rows

\* Pet.query.filter_by(user_id=uid).all(): the rows in id order
RECURSIVE PetsOf(_, _)
PetsOf(rows, uid) ==
    IF rows = <<>> THEN <<>>
    ELSE IF Head(rows).user_id = uid
         THEN <<Head(rows)>> \o PetsOf(Tail(rows), uid)
         ELSE PetsOf(Tail(rows), uid)

\* f"{p.name} (a {p.age if p.age else 'unknown age'} year old {p.species}",
\* then ", {p.breed}" if p.breed, then ")"
PetDetails(p) ==
    <<p.name, " (a ">>
        \o (IF p.age # None /\ p.age[1] # 0
            THEN IntToStr(p.age[1]) ELSE <<"unknown age">>)
        \o <<" year old ", p.species>>
        \o (IF p.breed # None /\ p.breed[1] # "" THEN <<", ", p.breed[1]>> ELSE <<>>)
        \o <<")">>

\* f"User's pets: {', '.join(pet_details)}. ", or "" without pets
ContextPrefix(user_pets) ==
    IF user_pets = <<>> THEN <<>>
    ELSE <<"User's pets: ">>
            \o Join([i \in 1..Len(user_pets) |-> PetDetails(user_pets[i])], <<", ">>)
            \o <<". ">>

\* the operands swapped: user_input + context_prefix
EnhancedQuery_swapped(context_prefix, user_input) == user_input \o context_prefix

\* context_prefix + user_input
EnhancedQuery(context_prefix, user_input) == context_prefix \o user_input

\* the comparison off by one: >= 150
SourceContent_inclusive(text) ==
    IF Len(text) >= TruncLen
    THEN Slice(text, TruncLen) \o <<".", ".", ".">>
    ELSE text

\* doc.page_content[:150] + "..." if len(doc.page_content) > 150 else doc.page_content
SourceContent(text) ==
    IF Len(text) > TruncLen
    THEN Slice(text, TruncLen) \o <<".", ".", ".">>
    ELSE text

\* the loop over sources, the slice forgotten
SourceInfo_uncapped(sources) ==
    [i \in 1..Len(sources) |->
        [content |-> SourceContent(sources[i].page_content),
         source |-> DictGet(sources[i].metadata, "source", "Unknown"),
         page |-> DictGet(sources[i].metadata, "page", "N/A")]]

\* the loop over sources[:2]
SourceInfo(sources) ==
    [i \in 1..Min(MaxSources, Len(sources)) |->
        [content |-> SourceContent(sources[i].page_content),
         source |-> DictGet(sources[i].metadata, "source", "Unknown"),
         page |-> DictGet(sources[i].metadata, "page", "N/A")]]

\* the except clause written like that of the other handlers:
\* jsonify({"error": str(e)})
ChatFails_leaky(r, e) ==
    [Idle EXCEPT !.pc = "done", !.data = r.data, !.sess = r.sess,
                 !.db_read = r.db_read, !.invoked = r.invoked,
                 !.exc = Some(e), !.status = 500,
                 !.body = [error |-> e, answer |-> Apology]]

\* the except clause of chat: the exception is printed, the reply is fixed;
\* the locals of the try block are not used again
ChatFails(r, e) ==
    [Idle EXCEPT !.pc = "done", !.data = r.data, !.sess = r.sess,
                 !.db_read = r.db_read, !.invoked = r.invoked,
                 !.exc = Some(e), !.status = 500, !.body = FailureBody]

\* the login check left out
ChatAuthorized_open(sess) == TRUE

\* line 400: if 'user_id' not in session: 401
ChatAuthorized(sess) == LoggedIn(sess)

\* lines 400-411: the login check, request.json, strip(), the empty check
ChatReceive(t, c, data) ==
    /\ proc = "serving"
    /\ req[t].pc = "idle"
    /\ LET r == [Idle EXCEPT !.data = data, !.sess = session[c]]
           message == DictGet(data, "message", JStr(<<>>))
       IN req' = [req EXCEPT ![t] =
            IF ~ChatAuthorized(r.sess)
            THEN [r EXCEPT !.pc = "done", !.status = 401, !.body = UnauthorizedBody]
            ELSE IF message.t # "str"
            THEN ChatFails(r, "AttributeError: 'NoneType' object has no attribute 'strip'")
            ELSE IF Strip(message.v) = <<>>
            THEN [r EXCEPT !.pc = "done", !.status = 400, !.body = EmptyBody]
            ELSE [r EXCEPT !.pc = "validated", !.user_input = Strip(message.v)]]
    /\ UNCHANGED <<dataDir, buildVars, proc, users, pets, session>>

\* lines 413-436: the user's pets are read and the query is enhanced; an
\* exception of the database leaves the prefix empty
ChatContext(t) ==
    /\ req[t].pc = "validated"
    /\ \E dbOk \in BOOLEAN :
          LET user_pets == PetsOf(pets, req[t].sess.user_id)
              context_prefix == IF dbOk THEN ContextPrefix(user_pets) ELSE <<>>
          IN req' = [req EXCEPT ![t] =
                [@ EXCEPT !.pc = "enhanced",
                          !.db_read = TRUE,
                          !.context_prefix = context_prefix,
                          !.enhanced_query =
                              EnhancedQuery(context_prefix, req[t].user_input)]]
    /\ UNCHANGED <<dataDir, buildVars, proc, users, pets, session>>

\* the enhanced query kept in a module-level global that every request
\* writes: the chain gets whatever another request in flight wrote last
ChainInput_shared(t) ==
    LET others == {u \in Threads \ {t} : req[u].pc \in {"enhanced", "retrieved"}} IN
    IF others = {} THEN [input |-> req[t].enhanced_query]
    ELSE [input |-> req[CHOOSE u \in others : TRUE].enhanced_query]

\* the argument of qa_chain.invoke
ChainInput(t) == [input |-> req[t].enhanced_query]

\* line 439, first half: the retrieval chain embeds input["input"] and
\* searches the index; the embedding call may raise
ChatRetrieve(t) ==
    /\ req[t].pc = "enhanced"
    /\ \E providerOk \in BOOLEAN :
          LET r == [req[t] EXCEPT !.invoked = TRUE] IN
          req' = [req EXCEPT ![t] =
            IF qa_chain = None
            THEN ChatFails(r, "AttributeError: 'NoneType' object has no attribute 'invoke'")
            ELSE IF ~providerOk
            THEN ChatFails(r, "openai.APIConnectionError: embeddings")
            ELSE [r EXCEPT !.pc = "retrieved",
                           !.retriever_query = ChainInput(t).input,
                           !.context = Retrieve(qa_chain[1], ChainInput(t).input)]]
    /\ UNCHANGED <<dataDir, buildVars, proc, users, pets, session>>

\* line 439, second half, and lines 441-459: the chat model answers the
\* prompt made of the context and input["input"] (or raises), and the
\* answer and the first sources are returned
ChatSynthesize(t) ==
    /\ req[t].pc = "retrieved"
    /\ \E providerOk \in BOOLEAN :
          LET question == ChainInput(t).input
              response == ChainResponse(question, req[t].context,
                                        Synthesize(question, req[t].context))
              answer == DictGet(response, "answer", NoAnswer)
              sources == DictGet(response, "context", <<>>)
          IN req' = [req EXCEPT ![t] =
                IF ~providerOk
                THEN ChatFails(req[t], "openai.RateLimitError: chat completions")
                ELSE [req[t] EXCEPT !.pc = "done",
                                    !.llm_question = question,
                                    !.status = 200,
                                    !.body = [answer |-> answer,
                                              sources |-> SourceInfo(sources)]]]
    /\ UNCHANGED <<dataDir, buildVars, proc, users, pets, session>>

\* the response has been sent; the thread takes the next request
ChatReturn(t) ==
    /\ req[t].pc = "done"
    /\ req' = [req EXCEPT ![t] = Idle]
    /\ UNCHANGED <<dataDir, buildVars, proc, users, pets, session>>

\* ----------------------------------------------------------- the system
Init ==
    /\ dataDir \in DataDirs
    /\ stage = "Uninitialized"
    /\ docs = <<>>
    /\ split_docs = <<>>
    /\ qa_chain = None
    /\ proc = "importing"
    /\ users = <<>>
    /\ pets = <<>>
    /\ session = [c \in Clients |-> NoSession]
    /\ req = [t \in Threads |-> Idle]

Build == BuildStart \/ LoadDocs \/ SplitDocs \/ BuildIndex \/ AppRun

Accounts ==
    \/ \E c \in Clients, data \in RegisterInputs : Register(c, data)
    \/ \E c \in Clients, data \in LoginInputs : Login(c, data)
    \/ \E c \in Clients : Logout(c)

PetOps ==
    \/ \E c \in Clients, data \in PetInputs : PetCreate(c, data)
    \/ \E c \in Clients, id \in 1..MaxPets, data \in UpdateInputs : PetUpdate(c, id, data)
    \/ \E c \in Clients, id \in 1..MaxPets : PetDelete(c, id)

Chat(threads, inputs) ==
    \/ \E t \in threads, c \in Clients, data \in inputs : ChatReceive(t, c, data)
    \/ \E t \in threads : ChatContext(t)
    \/ \E t \in threads : ChatRetrieve(t)
    \/ \E t \in threads : ChatSynthesize(t)
    \/ \E t \in threads : ChatReturn(t)

\* one handler thread, every account and pet operation, every chat input
Next == Build \/ Accounts \/ PetOps \/ Chat({"t1"}, ChatInputs)

Spec == Init /\ [][Next]_vars

\* two handler threads serving accepted chat requests of users who
\* register and add pets meanwhile
NextConcurrent ==
    \/ Build
    \/ \E c \in Clients, data \in RegisterInputs : Register(c, data)
    \/ \E c \in Clients : PetCreate(c, [name |-> "Rex", species |-> "dog"])
    \/ Chat(Threads, {Question})

SpecConcurrent == Init /\ [][NextConcurrent]_vars

\* ------------------------------------------------------------ properties
\* the request of thread t got the 200 reply of lines 456-459
Answered(t) == req[t].pc = "done" /\ req[t].status = 200

\* C1: a successful chat reply lists exactly min(2, n) sources for n
\* retrieved chunks, never more than 2, and they are the first retrieved
\* chunks in retrieval order.
C1_SourcesAreFirstTwoRetrieved ==
    \A t \in Threads :
        Answered(t) =>
            LET retrieved == req[t].context
                sources == req[t].body.sources
            IN /\ Len(sources) = Min(2, Len(retrieved))
               /\ Len(sources) <= 2
               /\ \A i \in 1..Len(sources) :
                     /\ sources[i].source = retrieved[i].metadata.source
                     /\ sources[i].page = retrieved[i].metadata.page
                     /\ SubSeq(sources[i].content, 1, 3)
                            = SubSeq(retrieved[i].page_content, 1, 3)

\* three or more chunks were retrieved and two sources were reported
C1_Witness ==
    \E t \in Threads :
        /\ Answered(t)
        /\ Len(req[t].context) >= 3
        /\ Len(req[t].body.sources) = 2

\* C2: a reported source whose chunk text is longer than 150 characters has
\* as content the first 150 characters followed by "..." (153 characters);
\* a chunk text of 150 characters or fewer is reported unmodified.
C2_ContentTruncatedAt150 ==
    \A t \in Threads :
        Answered(t) =>
            \A i \in 1..Len(req[t].body.sources) :
                LET text == req[t].context[i].page_content
                    content == req[t].body.sources[i].content
                IN IF Len(text) > 150
                   THEN /\ Len(content) = 153
                        /\ SubSeq(content, 1, 150) = SubSeq(text, 1, 150)
                        /\ SubSeq(content, 151, 153) = <<".", ".", ".">>
                   ELSE content = text

\* one reply reports a chunk of more than 150 characters and a chunk of
\* exactly 150
C2_Witness ==
    \E t \in Threads :
        /\ Answered(t)
        /\ \E i, j \in 1..Len(req[t].body.sources) :
              /\ Len(req[t].context[i].page_content) > 150
              /\ Len(req[t].context[j].page_content) = 150

\* the chat model raised while thread t's query was served
SynthesisFailed(t) ==
    /\ req[t].pc = "done"
    /\ req[t].exc = Some("openai.RateLimitError: chat completions")

\* C3: when the answer synthesizer raises, the result carries the fixed
\* apology as its answer and an empty sources list, and no error propagates.
C3_DegradedHasEmptySources ==
    \A t \in Threads :
        SynthesisFailed(t) =>
            /\ req[t].body.answer = Apology
            /\ "sources" \in DOMAIN req[t].body
            /\ req[t].body.sources = <<>>

\* C4: with zero documents in the data folder the construction of the
\* pipeline fails with an error that reaches the caller, no chain is
\* returned, and the pipeline never gets to Ready.
C4_EmptyCorpusFailsBuild ==
    dataDir = <<>> =>
        /\ stage \in {"Uninitialized", "Loading", "Failed"}
        /\ qa_chain = None
        /\ proc \in {"importing", "exited"}
        /\ stage = "Failed" => proc = "exited"

\* the loader found nothing and the build has failed
C4_Witness == dataDir = <<>> /\ stage = "Failed" /\ proc = "exited"

\* C5: no chat query is served, and the chain is never invoked, unless the
\* build reached Ready before; a failed build ends the start-up, so that no
\* query is accepted at all.
C5_BuildBeforeQueries ==
    /\ \A t \in Threads :
          req[t].pc # "idle" => stage = "Ready" /\ proc = "serving" /\ qa_chain # None
    /\ proc \in {"imported", "serving"} => stage = "Ready" /\ qa_chain # None
    /\ stage = "Failed" =>
          /\ proc = "exited"
          /\ \A t \in Threads : req[t] = Idle
          /\ users = <<>>

\* a query has been through the chain, after a build that reached Ready
C5_Witness ==
    \E t \in Threads : Answered(t) /\ req[t].invoked /\ stage = "Ready"

\* the posted message is missing, empty, or only whitespace
Blank(data) ==
    \/ "message" \notin DOMAIN data
    \/ /\ data.message.t = "str"
       /\ \A i \in 1..Len(data.message.v) : data.message.v[i] \in {" ", "\t", "\n"}

\* thread t's request was turned down with the validation error
RejectedAsEmpty(t) ==
    /\ req[t].pc = "done"
    /\ req[t].status = 400
    /\ req[t].body = [error |-> "Message cannot be empty"]
    /\ ~req[t].invoked

\* C6 as stated: every chat request whose message is missing, empty or only
\* whitespace is rejected with 400 "Message cannot be empty" before the
\* pipeline is invoked.
C6_BlankMessageGets400 ==
    \A t \in Threads :
        req[t].pc # "idle" /\ Blank(req[t].data) => RejectedAsEmpty(t)

\* C6 as amended: a chat request of a logged-in session whose message is
\* missing, empty or only whitespace is rejected with 400 "Message cannot be
\* empty" before the database or the pipeline is used (without a login the
\* reply is 401 instead), and the chain is never invoked for a blank message.
C6_BlankMessageOfUserGets400 ==
    \A t \in Threads :
        /\ req[t].pc # "idle" /\ Blank(req[t].data) /\ LoggedIn(req[t].sess)
              => RejectedAsEmpty(t) /\ ~req[t].db_read
        /\ req[t].pc # "idle" /\ Blank(req[t].data)
              => req[t].pc = "done" /\ req[t].status \in {400, 401} /\ ~req[t].invoked
        /\ req[t].invoked => ~Blank(req[t].data)

\* a logged-in user's whitespace-only message has been rejected
C6_Witness ==
    \E t \in Threads :
        /\ RejectedAsEmpty(t)
        /\ LoggedIn(req[t].sess)
        /\ req[t].data = [message |-> JStr(<<" ", "\n">>)]

\* C7: for an accepted chat request the enhanced query is the user-context
\* prefix followed by the stripped question (the question alone when the
\* prefix is empty), and this one string is what the retriever searches
\* with and what the chat model is asked.
C7_EnhancedQueryIsPrefixPlusQuestion ==
    \A t \in Threads :
        LET r == req[t]
            question == r.user_input
        IN /\ r.pc \in {"enhanced", "retrieved"} \/ Answered(t) =>
                /\ question = Strip(r.data.message.v)
                /\ question # <<>>
                /\ r.enhanced_query = r.context_prefix \o question
                /\ r.context_prefix = <<>> => r.enhanced_query = question
           /\ r.pc = "retrieved" \/ Answered(t) =>
                r.retriever_query = r.enhanced_query
           /\ Answered(t) =>
                /\ r.llm_question = r.enhanced_query
                /\ r.llm_question = r.retriever_query

\* a request with a non-empty prefix and a message that strip() shortened
\* has been answered
C7_Witness ==
    \E t \in Threads :
        /\ Answered(t)
        /\ req[t].context_prefix # <<>>
        /\ req[t].data.message.v # req[t].user_input

\* the pets of user uid, in table order
OwnRows(uid) == SelectSeq(pets, LAMBDA p : p.user_id = uid)

\* name, age or "unknown age", species, and the breed when there is one
Described(p) ==
    <<p.name, " (a ">>
        \o (IF p.age \in {None, Some(0)} THEN <<"unknown age">> ELSE IntToStr(p.age[1]))
        \o <<" year old ", p.species>>
        \o (IF p.breed \in {None, Some("")} THEN <<>> ELSE <<", ", p.breed[1]>>)
        \o <<")">>

\* the one sentence that describes the rows, "" for none
PetSentence(rows) ==
    IF rows = <<>> THEN <<>>
    ELSE <<"User's pets: ">>
            \o Join([i \in 1..Len(rows) |-> Described(rows[i])], <<", ">>)
            \o <<". ">>

\* thread t runs lines 413-436 in this step
ContextStep(t) == req[t].pc = "validated" /\ req'[t].pc = "enhanced"

OwnResult(t) ==
    LET r == req[t] IN
    /\ r.pc \in {"enhanced", "retrieved"} \/ Answered(t) =>
          r.enhanced_query = r.context_prefix \o r.user_input
    /\ r.pc = "retrieved" \/ Answered(t) =>
          /\ r.retriever_query = r.enhanced_query
          /\ r.context = Retrieve(qa_chain[1], r.enhanced_query)
    /\ Answered(t) =>
          /\ r.llm_question = r.enhanced_query
          /\ r.body.answer = Synthesize(r.enhanced_query, r.context)
          /\ r.body.sources = SourceInfo(r.context)

\* a step of one request writes nothing but that request
QueryStepIsLocal ==
    \A t \in Threads :
        req'[t] # req[t] =>
            /\ \A u \in Threads \ {t} : req'[u] = req[u]
            /\ UNCHANGED <<dataDir, buildVars, proc, users, pets, session>>

\* C9: under any interleaving of chat requests the chain built at start-up
\* is never modified, a step of one request changes nothing but that
\* request, and each request's enhanced query, retrieved chunks, answer and
\* sources follow from its own input and prefix alone.
C9_RequestsAreIsolated ==
    /\ [](\A t \in Threads : OwnResult(t))
    /\ [][QueryStepIsLocal /\ (qa_chain # None => qa_chain' = qa_chain)]_vars

\* one request has been answered while another, with a different enhanced
\* query, is past its own enhancement
C9_Witness ==
    \E t, u \in Threads :
        /\ t # u
        /\ Answered(t)
        /\ req[u].pc \in {"enhanced", "retrieved"}
        /\ req[u].enhanced_query # req[t].enhanced_query

\* C10: a chat request made in a session with no logged-in user is answered
\* 401 and neither reads users or pets nor invokes the chain.
C10_ChatRequiresLogin ==
    \A t \in Threads :
        req[t].pc # "idle" /\ ~LoggedIn(req[t].sess) =>
            /\ req[t].pc = "done"
            /\ req[t].status = 401
            /\ req[t].body = UnauthorizedBody
            /\ ~req[t].db_read
            /\ ~req[t].invoked

\* a user exists, the session has been logged out, and its chat request
\* got the 401
C10_Witness ==
    \E t \in Threads :
        /\ req[t].pc = "done"
        /\ req[t].status = 401
        /\ users # <<>>
        /\ \A c \in Clients : ~LoggedIn(session[c])

\* the stages of a build that meets no error, in order
StageOrder == <<"Uninitialized", "Loading", "Chunking", "Indexing", "Ready">>

\* a change of stage is one step along the order, or the step to Failed
\* from a stage that is neither Ready nor Failed
StageStep ==
    stage' # stage =>
        \/ \E i \in 1..(Len(StageOrder) - 1) :
              stage = StageOrder[i] /\ stage' = StageOrder[i + 1]
        \/ stage \notin {"Ready", "Failed"} /\ stage' = "Failed"

\* what each stage holds: nothing of a failed build is kept, and the chain
\* exists exactly at Ready, over the chunks of every page of the folder
StageHolds ==
    /\ stage \in {"Uninitialized", "Loading"} => docs = <<>> /\ split_docs = <<>>
    /\ stage = "Chunking" => docs = dataDir /\ docs # <<>> /\ split_docs = <<>>
    /\ stage = "Indexing" => Len(split_docs) = Len(dataDir) /\ split_docs # <<>>
    /\ stage = "Failed" =>
          docs = <<>> /\ split_docs = <<>> /\ qa_chain = None /\ proc = "exited"
    /\ stage = "Ready" =>
          /\ dataDir # <<>>
          /\ qa_chain = <<[index |-> dataDir, k |-> 4]>>
    /\ qa_chain # None => stage = "Ready"

\* C11: the build goes Uninitialized, Loading, Chunking, Indexing, Ready
\* with no stage skipped or reordered; the first error moves it to Failed,
\* after which no stage runs and no index or chain is kept or returned;
\* Ready is reached only when every stage completed.
C11_BuildStagesInOrder ==
    /\ []StageHolds
    /\ [][StageStep]_vars

\* a build over a non-empty folder has failed
C11_Witness == stage = "Failed" /\ dataDir # <<>>

\* the chat request of thread t ended in a provider's exception
ProviderFailed(t) ==
    /\ req[t].pc = "done"
    /\ req[t].exc \in {Some("openai.APIConnectionError: embeddings"),
                      Some("openai.RateLimitError: chat completions")}

\* the fragment is the text of an exception, or holds its first word
FromException(fragment) ==
    fragment \in {"openai.APIConnectionError: embeddings",
                  "openai.RateLimitError: chat completions",
                  "openai.APIConnectionError", "openai.RateLimitError"}

\* C12: a provider error raised while a query is served is caught and the
\* reply is the degraded one, made of fixed strings only: it holds neither
\* the provider's message nor any text taken from the exception.
C12_DegradedReplyIsFixed ==
    \A t \in Threads :
        ProviderFailed(t) =>
            /\ req[t].status = 500
            /\ DOMAIN req[t].body = {"error", "answer"}
            /\ req[t].body.error = "An error occurred processing your request"
            /\ req[t].body.answer =
                  <<"I apologize, but I'm having trouble processing your question right now. Please try again.">>
            /\ ~FromException(req[t].body.error)
            /\ \A i \in 1..Len(req[t].body.answer) : ~FromException(req[t].body.answer[i])

\* the embedding call of a query raised and the request got its reply
C12_Witness ==
    \E t \in Threads :
        /\ req[t].pc = "done"
        /\ req[t].exc = Some("openai.APIConnectionError: embeddings")
        /\ req[t].invoked
        /\ req[t].status = 500

====
